---- MODULE Spec2Model ----
(***************************************************************************)
(* A model of auto_diff::Node, the DEFINE_MODULE adapters and the test     *)
(* backends (BasicSum over int; VectorSum, VectorSplit, VectorPow over     *)
(* Vec<int>).  Nodes live in a store indexed by identity: node k is the    *)
(* k-th node the program constructed, and a NodePtr is an index.           *)
(* Beside it: the owners that keep the nodes alive, the same expressions   *)
(* built from ai::Variable with operator+, and ai::Logger with the threads *)
(* that call it.                                                           *)
(***************************************************************************)
EXTENDS Integers, Sequences, FiniteSets, TLC

\* ------------------------------------------------------------------ bounds
MaxNodes == 3        \* nodes the program constructs
MaxInputs == 2       \* length of the input list handed to Forward
MaxBackward == 2     \* Backward() calls on a differentiable root
MaxVecNodes == 3     \* the same two bounds when T is Vec<int>
MaxVecInputs == 1
MaxCalls == 5        \* nodes constructed plus Backward() calls on differentiable roots
MaxLogCalls == 3     \* calls of the logger its threads make between them

IntLeafValues == {3}
VecLeafValues == {<<1, 2>>}
\* the exponent a VectorPow module is constructed with
PowParams == {2}
\* what a read past the end of a vector may yield
GarbageValues == {0, 7}

VARIABLES
    T,            \* the template argument of Node<T>: "int" or "Vec"
    nodes,        \* the nodes constructed so far, by identity
    origin,       \* history: how each node was made, see Made
    pc,           \* "idle", "replay" inside Backward()'s loop, or "crashed"
    root,         \* the node Backward() was called on (0 outside a call)
    sortedNodes,  \* Backward()'s local topologicalSortedNodes
    it,           \* the reverse iterator: sortedNodes[it] is *it, 0 is rend()
    invoked,      \* history: the closures this Backward() call invoked so far
    entryGrad,    \* history: every node's grad when this Backward() was entered
    nBackward,    \* Backward() calls made on differentiable roots
    called,       \* history: the node of the caller's latest call, if it was Backward()
    ub,           \* history: a closure has accessed a vector out of bounds
    first,        \* history: the root and the grads of the first Backward() that returned
    zeroedAt,     \* history: the Backward() calls made when the caller last reset the grads
    m_outputStream,  \* Logger::m_outputStream: "null" or the stream it points to
    m_mutex,         \* Logger::m_mutex: 0 or the thread that holds it
    m_buferization,  \* Logger::m_buferization
    streams,         \* what has been written to each stream, in order
    flushed,         \* how much of each stream has been flushed
    lpc,             \* where each thread stands in its call of the logger
    call,            \* the call each thread is making, or made last
    result,          \* history: how each thread's latest call ended
    nLogCalls,       \* history: the calls of the logger made so far
    variables,       \* the ai::Variable objects constructed so far, by identity
    vInvoked,        \* history: the closures the latest Variable::Backward() invoked
    held,            \* the nodes the caller holds a NodePtr to
    alive            \* the nodes that have not been destroyed

\* the caller's bookkeeping of repeated Backward() calls
repeatVars == <<first, zeroedAt>>

\* the state of the graph and of Backward()
graphVars == <<T, nodes, origin, pc, root, sortedNodes, it, invoked, entryGrad,
               nBackward, called, ub>>

\* the logger, its streams and its callers
loggerVars == <<m_outputStream, m_mutex, m_buferization, streams, flushed, lpc,
                call, result, nLogCalls>>

\* the same expressions built from ai::Variable
overloadVars == <<variables, vInvoked>>

\* who keeps the nodes alive
ownerVars == <<held, alive>>

vars == <<graphVars, repeatVars, loggerVars, overloadVars, ownerVars>>

Ids == DOMAIN nodes

Range(s) == {s[i] : i \in DOMAIN s}

\* ------------------------------------------------------------------ values of T
\* T{}: value-initialisation
DefaultT == IF T = "int" THEN 0 ELSE <<>>

\* a = v for an integer literal v: int assignment, or Vec::operator=(int),
\* which overwrites the elements the vector has and keeps its size
AssignInt(a, v) == IF T = "int" THEN v ELSE [i \in DOMAIN a |-> v]

\* ------------------------------------------------------------------ Node
\* an empty std::function
NoFn == [op |-> "none", inputs |-> <<>>, out |-> 0, i |-> 0, params |-> 0]

\* Node() = default
NodeDefault ==
    [data |-> DefaultT, grad |-> DefaultT, requiresGrad |-> TRUE,
     backwardFn |-> NoFn, parents |-> <<>>]

\* the constructor with grad = 0 alone, without grad = data before it
NodeCtorNoShape(data, requiresGrad) ==
    [data |-> data,
     grad |-> IF requiresGrad THEN AssignInt(DefaultT, 0) ELSE DefaultT,
     requiresGrad |-> requiresGrad,
     backwardFn |-> NoFn, parents |-> <<>>]

\* Node(T data, bool requiresGrad)
NodeCtor(data, requiresGrad) ==
    [data |-> data,
     grad |-> IF requiresGrad THEN AssignInt(data, 0) ELSE DefaultT,
     requiresGrad |-> requiresGrad,
     backwardFn |-> NoFn, parents |-> <<>>]

\* SkipNode without the visited set: every path to a node visits it again
SkipNodeNoVisited(ns, node, visited) == ~ns[node].requiresGrad

\* SkipNode without the test of requiresGrad
SkipNodeIgnoresFlag(ns, node, visited) == node \in visited

\* the early return of TopologicalSortInner
SkipNode(ns, node, visited) == node \in visited \/ ~ns[node].requiresGrad

RECURSIVE TopologicalSortInner(_, _, _), VisitParents(_, _, _, _)
\* st = [visited, sortedNodes], the two reference parameters
TopologicalSortInner(ns, node, st) ==
    IF SkipNode(ns, node, st.visited) THEN st
    ELSE LET st1 == [st EXCEPT !.visited = @ \cup {node}]
             st2 == VisitParents(ns, ns[node].parents, 1, st1)
         IN  [st2 EXCEPT !.sortedNodes = Append(@, node)]

\* the loop over the parents left after its first iteration
VisitParentsFirstOnly(ns, ps, i, st) ==
    IF i > Len(ps) \/ i > 1 THEN st
    ELSE VisitParents(ns, ps, i + 1, TopologicalSortInner(ns, ps[i], st))

\* for (auto& parent : node->parents) TopologicalSortInner(parent.get(), ...)
VisitParents(ns, ps, i, st) ==
    IF i > Len(ps) THEN st
    ELSE VisitParents(ns, ps, i + 1, TopologicalSortInner(ns, ps[i], st))

TopologicalSort(ns, node) ==
    TopologicalSortInner(ns, node, [visited |-> {}, sortedNodes |-> <<>>]).sortedNodes

\* ------------------------------------------------------------------ BasicBackend<int>
RECURSIVE SumData(_, _, _)
\* outputs[0]->data += input->data, over the inputs
SumData(ns, inputs, i) ==
    IF i > Len(inputs) THEN 0 ELSE ns[inputs[i]].data + SumData(ns, inputs, i + 1)

\* BasicSumForward: one default-constructed output holding the sum
BasicSumForward(ns, inputs) ==
    << [NodeDefault EXCEPT !.data = NodeDefault.data + SumData(ns, inputs, 1)] >>

RECURSIVE BasicSumBackwardAssign(_, _, _, _)
\* BasicSumBackward with = in place of +=
BasicSumBackwardAssign(ns, inputs, out, i) ==
    IF i > Len(inputs) THEN ns
    ELSE LET in == inputs[i]
             ns1 == IF ns[in].requiresGrad
                    THEN [ns EXCEPT ![in].grad = ns[out].grad]
                    ELSE ns
         IN  BasicSumBackwardAssign(ns1, inputs, out, i + 1)

RECURSIVE BasicSumBackwardUnchecked(_, _, _, _)
\* BasicSumBackward without the test of input->requiresGrad
BasicSumBackwardUnchecked(ns, inputs, out, i) ==
    IF i > Len(inputs) THEN ns
    ELSE BasicSumBackwardUnchecked([ns EXCEPT ![inputs[i]].grad = @ + ns[out].grad],
                                   inputs, out, i + 1)

RECURSIVE BasicSumBackwardReversed(_, _, _, _)
\* BasicSumBackward with the operands of += exchanged
BasicSumBackwardReversed(ns, inputs, out, i) ==
    IF i > Len(inputs) THEN ns
    ELSE LET in == inputs[i]
             ns1 == IF ns[in].requiresGrad
                    THEN [ns EXCEPT ![out].grad = @ + ns[in].grad]
                    ELSE ns
         IN  BasicSumBackwardReversed(ns1, inputs, out, i + 1)

RECURSIVE BasicSumBackward(_, _, _, _)
\* for each input in order: if it requires grad, input->grad += output->grad
BasicSumBackward(ns, inputs, out, i) ==
    IF i > Len(inputs) THEN ns
    ELSE LET in == inputs[i]
             ns1 == IF ns[in].requiresGrad
                    THEN [ns EXCEPT ![in].grad = @ + ns[out].grad]
                    ELSE ns
         IN  BasicSumBackward(ns1, inputs, out, i + 1)

\* ------------------------------------------------------------------ VectorBackend<int>
\* Vec<T>(n, 0)
Zeros(n) == [i \in 1..n |-> 0]

\* v[i] read the way operator[] reads it: past the end it is whatever is there
ReadAt(v, i, garbage) == IF i \in DOMAIN v THEN v[i] ELSE garbage

\* for (i < n) a[i] += b[i]: a write past the end of a leaves a as it is
AddInto(a, b, n, garbage) ==
    [j \in DOMAIN a |-> IF j <= n THEN a[j] + ReadAt(b, j, garbage) ELSE a[j]]

RECURSIVE VecSumData(_, _, _, _)
\* outputs[0]->data[i] += input->data[i], over the inputs
VecSumData(ns, inputs, i, acc) ==
    IF i > Len(inputs) THEN acc
    ELSE VecSumData(ns, inputs, i + 1,
                    AddInto(acc, ns[inputs[i]].data, Len(ns[inputs[i]].data), 0))

\* VectorSumForward.  ctorRequiresGrad is the requiresGrad argument the backend
\* gives the Node constructor: VectorBackend leaves it at its default (true);
\* the Backend concept admits a backend that passes false.
VectorSumForward(ns, inputs, ctorRequiresGrad) ==
    LET out == NodeCtor(Zeros(Len(ns[inputs[1]].data)), ctorRequiresGrad)
    IN  << [out EXCEPT !.data = VecSumData(ns, inputs, 1, @)] >>

RECURSIVE VectorSumBackward(_, _, _, _, _)
VectorSumBackward(ns, inputs, out, i, garbage) ==
    IF i > Len(inputs) THEN ns
    ELSE LET in == inputs[i]
             ns1 == IF ns[in].requiresGrad
                    THEN [ns EXCEPT ![in].grad =
                            AddInto(@, ns[out].grad, Len(ns[in].data), garbage)]
                    ELSE ns
         IN  VectorSumBackward(ns1, inputs, out, i + 1, garbage)

\* VectorSplitForward: one single-element output per element of inputs[0]
VectorSplitForward(ns, inputs) ==
    LET data == ns[inputs[1]].data
    IN  [i \in 1..Len(data) |-> NodeCtor(<<data[i]>>, TRUE)]

\* input->grad[outputIdx] += output->grad[0]
VectorSplitBackward(ns, inputs, out, outputIdx, garbage) ==
    LET in == inputs[1]
    IN  IF ns[in].requiresGrad /\ outputIdx + 1 \in DOMAIN ns[in].grad
        THEN [ns EXCEPT ![in].grad[outputIdx + 1] = @ + ReadAt(ns[out].grad, 1, garbage)]
        ELSE ns

RECURSIVE IntPow(_, _)
\* std::pow on the small integers of the model, where it is exact
IntPow(x, p) == IF p <= 0 THEN 1 ELSE x * IntPow(x, p - 1)

\* VectorPowForward
VectorPowForward(ns, inputs, pow) ==
    LET data == ns[inputs[1]].data
        out == NodeCtor(Zeros(Len(data)), TRUE)
    IN  << [out EXCEPT !.data = [i \in DOMAIN data |-> IntPow(data[i], pow)]] >>

\* input->grad[i] += pow * std::pow(input->data[i], pow - 1) * output->grad[i]
VectorPowBackward(ns, inputs, out, pow, garbage) ==
    LET in == inputs[1]
        data == ns[in].data
    IN  IF ns[in].requiresGrad
        THEN [ns EXCEPT ![in].grad =
                [j \in DOMAIN @ |->
                   IF j <= Len(data)
                   THEN @[j] + pow * IntPow(data[j], pow - 1) * ReadAt(ns[out].grad, j, garbage)
                   ELSE @[j]]]
        ELSE ns

\* the closure would index a grad vector past its end
OutOfBounds(ns, fn) ==
    LET out == ns[fn.out]
        Short(in) == /\ ns[in].requiresGrad
                     /\ \/ Len(ns[in].data) > Len(ns[in].grad)
                        \/ Len(ns[in].data) > Len(out.grad)
    IN  CASE fn.op = "VectorSum" -> \E i \in DOMAIN fn.inputs : Short(fn.inputs[i])
          [] fn.op = "VectorPow" -> Short(fn.inputs[1])
          [] fn.op = "VectorSplit" ->
                /\ ns[fn.inputs[1]].requiresGrad
                /\ \/ fn.i + 1 > Len(ns[fn.inputs[1]].grad)
                   \/ Len(out.grad) < 1
          [] OTHER -> FALSE

\* ------------------------------------------------------------------ Module
\* std::all_of in place of std::any_of
AllRequiresGrad(ns, inputs) == \A i \in DOMAIN inputs : ns[inputs[i]].requiresGrad

\* std::any_of that looks at the first input only
AnyRequiresGradFirstOnly(ns, inputs) == inputs # <<>> /\ ns[inputs[1]].requiresGrad

\* std::any_of(inputs, requiresGrad)
AnyRequiresGrad(ns, inputs) == \E i \in DOMAIN inputs : ns[inputs[i]].requiresGrad

\* a closure that does not capture the module's parameter
ClosureWithoutParams(op, inputs, out, i, params) ==
    [op |-> op, inputs |-> inputs, out |-> out, i |-> i, params |-> 0]

\* a closure that passes index 0 whichever output it belongs to
ClosureIndexZero(op, inputs, out, i, params) ==
    [op |-> op, inputs |-> inputs, out |-> out, i |-> 0, params |-> params]

\* the closure Forward binds to output number i (0-based, as in the code)
Closure(op, inputs, out, i, params) ==
    [op |-> op, inputs |-> inputs, out |-> out, i |-> i, params |-> params]

\* Wire that attaches the parents to the first output only
WireFirstOutputOnly(output, op, inputs, out, i, params, requiresGrad) ==
    [output EXCEPT !.parents = IF i = 0 THEN inputs ELSE @,
                   !.requiresGrad = requiresGrad,
                   !.backwardFn = IF requiresGrad
                                  THEN [op |-> op, inputs |-> inputs, out |-> out,
                                        i |-> i, params |-> params]
                                  ELSE @]

\* Wire that binds the closure whatever requiresGrad is
WireAlwaysBind(output, op, inputs, out, i, params, requiresGrad) ==
    [output EXCEPT !.parents = inputs,
                   !.requiresGrad = requiresGrad,
                   !.backwardFn = [op |-> op, inputs |-> inputs, out |-> out,
                                   i |-> i, params |-> params]]

\* Wire that leaves the output with the flag its constructor gave it
WireKeepsCtorFlag(output, op, inputs, out, i, params, requiresGrad) ==
    [output EXCEPT !.parents = inputs,
                   !.backwardFn = IF requiresGrad
                                  THEN [op |-> op, inputs |-> inputs, out |-> out,
                                        i |-> i, params |-> params]
                                  ELSE @]

\* the loop of Forward over one output: parents, requiresGrad, backwardFn
Wire(output, op, inputs, out, i, params, requiresGrad) ==
    [output EXCEPT !.parents = inputs,
                   !.requiresGrad = requiresGrad,
                   !.backwardFn = IF requiresGrad
                                  THEN Closure(op, inputs, out, i, params)
                                  ELSE @]

\* Forward whose loop writes the computed flag to the inputs as well
ModuleForwardFlagsInputs(ns, op, inputs, outputs, params) ==
    LET requiresGrad == AnyRequiresGrad(ns, inputs)
        base == Len(ns)
        touched == [n \in DOMAIN ns |->
                      IF \E i \in DOMAIN inputs : inputs[i] = n
                      THEN [ns[n] EXCEPT !.requiresGrad = requiresGrad]
                      ELSE ns[n]]
    IN  touched \o [k \in 1..Len(outputs) |->
                      Wire(outputs[k], op, inputs, base + k, k - 1, params, requiresGrad)]

\* Forward that also records each output on its inputs, as their parent
ModuleForwardLinksBack(ns, op, inputs, outputs, params) ==
    LET requiresGrad == AnyRequiresGrad(ns, inputs)
        base == Len(ns)
        linked == [n \in DOMAIN ns |->
                     IF \E i \in DOMAIN inputs : inputs[i] = n
                     THEN [ns[n] EXCEPT !.parents = @ \o [k \in 1..Len(outputs) |-> base + k]]
                     ELSE ns[n]]
    IN  linked \o [k \in 1..Len(outputs) |->
                     Wire(outputs[k], op, inputs, base + k, k - 1, params, requiresGrad)]

\* Forward after the backend returned `outputs`: the outputs become the next
\* nodes of the store, each one wired
ModuleForward(ns, op, inputs, outputs, params) ==
    LET requiresGrad == AnyRequiresGrad(ns, inputs)
        base == Len(ns)
    IN  ns \o [k \in 1..Len(outputs) |->
                 Wire(outputs[k], op, inputs, base + k, k - 1, params, requiresGrad)]

\* what invoking a closure does: the backend's Backward on the captured state
CallBackwardFn(ns, fn, garbage) ==
    CASE fn.op = "BasicSum" -> BasicSumBackward(ns, fn.inputs, fn.out, 1)
      [] fn.op = "VectorSum" -> VectorSumBackward(ns, fn.inputs, fn.out, 1, garbage)
      [] fn.op = "VectorSplit" -> VectorSplitBackward(ns, fn.inputs, fn.out, fn.i, garbage)
      [] fn.op = "VectorPow" -> VectorPowBackward(ns, fn.inputs, fn.out, fn.params, garbage)
      [] OTHER -> ns

\* ------------------------------------------------------------------ the caller
NodeBound == IF T = "int" THEN MaxNodes ELSE MaxVecNodes
InputBound == IF T = "int" THEN MaxInputs ELSE MaxVecInputs

\* the values the caller constructs leaves from
LeafValues == IF T = "int" THEN IntLeafValues ELSE VecLeafValues

\* the input lists a Forward may be given
InputLists == UNION {[1..n -> Ids] : n \in 0..InputBound}

\* history of a node: made is "leaf", "default" or "module"; for a module's
\* output, op, inputs and params are the Forward call that made it and index
\* its place among the outputs; ctor is the flag and grad the gradient the
\* node was constructed with
Made(made, op, inputs, index, params, node) ==
    [made |-> made, op |-> op, inputs |-> inputs, index |-> index,
     params |-> params, ctor |-> node.requiresGrad, grad |-> node.grad]

\* ------------------------------------------------------------------ Logger
\* the threads that call the logger
Threads == {1, 2}

\* the stream std::cout and a stream of the caller's, such as a std::ostringstream
Streams == {"cout", "oss"}

\* how many replacement fields a message has, and how many arguments follow it
ArgCounts == {1, 2}

\* no call made yet
NoLogCall ==
    [op |-> "none", id |-> 0, fields |-> 0, args |-> 0, stream |-> "null",
     flag |-> FALSE, afterThrow |-> FALSE]

\* Logger::GetInstance() has not run: its static instance does not exist
NoLogger ==
    /\ m_outputStream = "none"
    /\ m_mutex = "none"
    /\ m_buferization = "none"
    /\ streams = "none"
    /\ flushed = "none"
    /\ lpc = "none"
    /\ call = "none"
    /\ result = "none"
    /\ nLogCalls = "none"

\* the static instance with its members' default initialisers; no thread is
\* in a call
LoggerInit ==
    /\ m_outputStream = "cout"
    /\ m_mutex = 0
    /\ m_buferization = FALSE
    /\ streams = [s \in Streams |-> <<>>]
    /\ flushed = [s \in Streams |-> 0]
    /\ lpc = [t \in Threads |-> "idle"]
    /\ call = [t \in Threads |-> NoLogCall]
    /\ result = [t \in Threads |-> "none"]
    /\ nLogCalls = 0

\* no Backward() has returned yet
NoCall == [root |-> 0, grad |-> <<>>]

\* program start: no node, no Variable, no call made
GraphStart ==
    /\ T \in {"int", "Vec"}
    /\ nodes = <<>>
    /\ origin = <<>>
    /\ pc = "idle"
    /\ root = 0
    /\ sortedNodes = <<>>
    /\ it = 0
    /\ invoked = <<>>
    /\ entryGrad = <<>>
    /\ nBackward = 0
    /\ called = 0
    /\ ub = FALSE
    /\ first = NoCall
    /\ zeroedAt = 0
    /\ variables = <<>>
    /\ vInvoked = <<>>
    /\ held = {}
    /\ alive = {}

\* a program that never calls the logger
Init == GraphStart /\ NoLogger

\* the caller makes its next call: no Backward() is running.  Once a closure
\* has had undefined behaviour the program is followed to the end of that
\* Backward() and no further.
CanCall == pc = "idle" /\ ~ub

\* the run has room for k more nodes or Backward() calls
Room(k) == Len(nodes) + nBackward + k <= MaxCalls

\* std::make_shared<Node<T>>(value, requiresGrad)
Construct(value, requiresGrad) ==
    /\ CanCall
    /\ Len(nodes) < NodeBound /\ Room(1)
    /\ nodes' = Append(nodes, NodeCtor(value, requiresGrad))
    /\ origin' = Append(origin, Made("leaf", "none", <<>>, 0, 0, NodeCtor(value, requiresGrad)))
    /\ called' = 0
    /\ UNCHANGED <<T, pc, root, sortedNodes, it, invoked, entryGrad, nBackward, ub>>

\* std::make_shared<Node<T>>()
ConstructDefault ==
    /\ CanCall
    /\ Len(nodes) < NodeBound /\ Room(1)
    /\ nodes' = Append(nodes, NodeDefault)
    /\ origin' = Append(origin, Made("default", "none", <<>>, 0, 0, NodeDefault))
    /\ called' = 0
    /\ UNCHANGED <<T, pc, root, sortedNodes, it, invoked, entryGrad, nBackward, ub>>

\* Module.Forward(inputs) around a backend that returned `outputs`
Forward(op, inputs, outputs, params) ==
    /\ CanCall
    /\ Len(nodes) + Len(outputs) <= NodeBound /\ Room(Len(outputs))
    /\ nodes' = ModuleForward(nodes, op, inputs, outputs, params)
    /\ origin' = origin \o [k \in 1..Len(outputs) |->
                              Made("module", op, inputs, k - 1, params, outputs[k])]
    /\ called' = 0
    /\ UNCHANGED <<T, pc, root, sortedNodes, it, invoked, entryGrad, nBackward, ub>>

\* BasicSum<int, BasicBackend<int>>().Forward(inputs)
ForwardBasicSum(inputs) ==
    /\ T = "int"
    /\ Forward("BasicSum", inputs, BasicSumForward(nodes, inputs), 0)

\* the vector backends read inputs[0] unchecked, and VectorSumForward sizes its
\* output by inputs[0] and indexes it by every input's size: the caller passes
\* at least one input, and to VectorSum no input longer than the first
FitsFirst(inputs) ==
    \A i \in DOMAIN inputs : Len(nodes[inputs[i]].data) <= Len(nodes[inputs[1]].data)

\* VectorSum<Vec<int>, Backend>().Forward(inputs)
ForwardVectorSum(inputs, ctorRequiresGrad) ==
    /\ T = "Vec"
    /\ inputs # <<>>
    /\ FitsFirst(inputs)
    /\ Forward("VectorSum", inputs, VectorSumForward(nodes, inputs, ctorRequiresGrad), 0)

\* VectorSplit<Vec<int>, VectorBackend<int>>().Forward(inputs)
ForwardVectorSplit(inputs) ==
    /\ T = "Vec"
    /\ inputs # <<>>
    /\ Forward("VectorSplit", inputs, VectorSplitForward(nodes, inputs), 0)

\* VectorPow<Vec<int>, VectorBackend<int>>(pow).Forward(inputs)
ForwardVectorPow(inputs, pow) ==
    /\ T = "Vec"
    /\ inputs # <<>>
    /\ Forward("VectorPow", inputs, VectorPowForward(nodes, inputs, pow), pow)

\* the loop running begin() to end() instead of rbegin() to rend()
ReplayNodeForward(sorted, i) == sorted[Len(sorted) + 1 - i]

\* *it of the reverse iterator over topologicalSortedNodes
ReplayNode(sorted, i) == sorted[i]

\* a loop whose iterator is never advanced
NextItStuck(i) == i

\* ++it on the reverse iterator; 0 is rend()
NextIt(i) == i - 1

\* Backward() without its early return
EarlyReturnNever(ns, r) == FALSE

\* if (!requiresGrad) return;
EarlyReturn(ns, r) == ~ns[r].requiresGrad

\* Backward() that zeroes every other gradient before it seeds the root
SeedGradZeroing(ns, r) ==
    [n \in DOMAIN ns |->
       [ns[n] EXCEPT !.grad = IF n = r THEN AssignInt(@, 1) ELSE AssignInt(@, 0)]]

\* grad += 1 in place of grad = 1
SeedGradAccumulates(ns, r) ==
    [ns EXCEPT ![r].grad = IF T = "int" THEN @ + 1 ELSE [i \in DOMAIN @ |-> @[i] + 1]]

\* grad = 1;
SeedGrad(ns, r) == [ns EXCEPT ![r].grad = AssignInt(@, 1)]

\* nodes[r].Backward(): the early return, or grad = 1 and the topological sort;
\* the replay loop then runs in ReplayStep
Backward(r) ==
    /\ CanCall
    /\ called' = r
    /\ IF EarlyReturn(nodes, r)
       THEN UNCHANGED <<T, nodes, origin, pc, root, sortedNodes, it, invoked,
                        entryGrad, nBackward, ub>>
       ELSE /\ nBackward < MaxBackward /\ Room(1)
            /\ nodes' = SeedGrad(nodes, r)
            /\ sortedNodes' = TopologicalSort(nodes', r)
            /\ it' = Len(sortedNodes')
            /\ pc' = "replay"
            /\ root' = r
            /\ invoked' = <<>>
            /\ entryGrad' = [n \in Ids |-> nodes[n].grad]
            /\ nBackward' = nBackward + 1
            /\ UNCHANGED <<T, origin, ub>>

\* one iteration of the loop: if ((*it)->backwardFn) (*it)->backwardFn(); ++it.
\* A closure that indexes a vector past its end has undefined behaviour: the
\* process dies, or the read yields garbage and the write lands outside the vector.
ReplayStep ==
    /\ pc = "replay"
    /\ it > 0
    /\ LET n == ReplayNode(sortedNodes, it)
           fn == nodes[n].backwardFn
           Ran(garbage) ==
               /\ nodes' = CallBackwardFn(nodes, fn, garbage)
               /\ invoked' = Append(invoked, [node |-> n, grad |-> nodes[n].grad])
               /\ it' = NextIt(it)
               /\ pc' = pc
       IN  IF fn = NoFn
           THEN UNCHANGED <<nodes, invoked, pc, ub>> /\ it' = NextIt(it)
           ELSE IF OutOfBounds(nodes, fn)
           THEN /\ ub' = TRUE
                /\ \/ \E garbage \in GarbageValues : Ran(garbage)
                   \/ pc' = "crashed" /\ UNCHANGED <<nodes, invoked, it>>
           ELSE Ran(0) /\ ub' = ub
    /\ UNCHANGED <<T, origin, root, sortedNodes, entryGrad, nBackward, called>>

\* it == rend(): Backward() returns and its locals are gone
BackwardReturn ==
    /\ pc = "replay"
    /\ it = 0
    /\ pc' = "idle"
    /\ root' = 0
    /\ sortedNodes' = <<>>
    /\ invoked' = <<>>
    /\ entryGrad' = <<>>
    /\ UNCHANGED <<T, nodes, origin, it, nBackward, called, ub>>

\* a step of the graph and its Backward(), which leaves the rest alone
Graph == UNCHANGED <<repeatVars, loggerVars, overloadVars, ownerVars>>

\* a module over element type t may be called
CanForward(t) == CanCall /\ T = t /\ Len(nodes) < NodeBound

Next ==
    \/ Graph /\ \E v \in LeafValues, g \in BOOLEAN : Construct(v, g)
    \/ Graph /\ ConstructDefault
    \/ Graph /\ CanForward("int") /\ \E inputs \in InputLists : ForwardBasicSum(inputs)
    \/ Graph /\ CanForward("Vec") /\ \E inputs \in InputLists, f \in BOOLEAN : ForwardVectorSum(inputs, f)
    \/ Graph /\ CanForward("Vec") /\ \E inputs \in InputLists : ForwardVectorSplit(inputs)
    \/ Graph /\ CanForward("Vec") /\ \E inputs \in InputLists, p \in PowParams : ForwardVectorPow(inputs, p)
    \/ Graph /\ CanCall /\ \E r \in Ids : Backward(r)
    \/ Graph /\ ReplayStep
    \/ Graph /\ BackwardReturn

Spec == Init /\ [][Next]_vars

\* The program with a single Backward() call on a differentiable root.  Whether
\* a Backward() ends is decided by parents, requiresGrad, the closures and the
\* sizes of the vectors, none of which an earlier Backward() changes.
NextLive ==
    \/ Graph /\ \E v \in LeafValues, g \in BOOLEAN : Construct(v, g)
    \/ Graph /\ ConstructDefault
    \/ Graph /\ CanForward("int") /\ \E inputs \in InputLists : ForwardBasicSum(inputs)
    \/ Graph /\ CanForward("Vec") /\ \E inputs \in InputLists, f \in BOOLEAN : ForwardVectorSum(inputs, f)
    \/ Graph /\ CanForward("Vec") /\ \E inputs \in InputLists : ForwardVectorSplit(inputs)
    \/ Graph /\ CanForward("Vec") /\ \E inputs \in InputLists, p \in PowParams : ForwardVectorPow(inputs, p)
    \/ Graph /\ CanCall /\ nBackward = 0 /\ \E r \in Ids : Backward(r)
    \/ Graph /\ ReplayStep
    \/ Graph /\ BackwardReturn

\* Backward() runs synchronously on the caller's thread: once entered, its loop
\* keeps taking steps and, at rend(), returns.  The caller's own calls are
\* under no obligation to happen.
SpecLive == Init /\ [][NextLive]_vars /\ WF_vars(Graph /\ ReplayStep) /\ WF_vars(Graph /\ BackwardReturn)

RECURSIVE Reach(_, _)
\* the nodes reachable from `seen` along parent edges, not going on from `avoid`
Reach(seen, avoid) ==
    LET next == UNION {Range(nodes[m].parents) : m \in seen \ {avoid}} \ seen
    IN  IF next = {} THEN seen ELSE Reach(seen \cup next, avoid)

RECURSIVE DiffReach(_)
\* the differentiable nodes parent edges lead to from the differentiable nodes
\* `seen`, going on from differentiable nodes only
DiffReach(seen) ==
    LET next == {p \in UNION {Range(nodes[m].parents) : m \in seen} :
                    nodes[p].requiresGrad} \ seen
    IN  IF next = {} THEN seen ELSE DiffReach(seen \cup next)

\* the nodes r reaches along parent paths all of whose nodes require grad
DiffReachable(r) == IF nodes[r].requiresGrad THEN DiffReach({r}) ELSE {}

\* n lies on a cycle of differentiable nodes
OnCycle(n) ==
    /\ nodes[n].requiresGrad
    /\ n \in DiffReach({p \in Range(nodes[n].parents) : nodes[p].requiresGrad})

\* the graph r's traversal walks contains a cycle of differentiable nodes
CycleFrom(r) == \E n \in DiffReachable(r) : OnCycle(n)

\* every node's parents are what its constructor or its Forward call gave it
ByConstruction == \A n \in Ids : nodes[n].parents = origin[n].inputs

\* misuse of the public field: nodes[n]->parents.push_back(nodes[p]) where n is
\* p itself or an ancestor p reaches through differentiable nodes, which closes
\* a cycle of differentiable nodes
AttachParent(n, p) ==
    /\ CanCall
    /\ ByConstruction
    /\ n \in DiffReachable(p)
    /\ nodes' = [nodes EXCEPT ![n].parents = Append(@, p)]
    /\ called' = 0
    /\ UNCHANGED <<T, origin, pc, root, sortedNodes, it, invoked, entryGrad, nBackward, ub>>

\* The misused program, over Node<int> (the traversal never looks at data or
\* grad): the caller builds a graph, closes one cycle in it by hand and then
\* calls Backward() once on a node that reaches the cycle.
InitMisuse == Init /\ T = "int"

NextMisuse ==
    \/ Graph /\ ByConstruction /\ \E v \in LeafValues, g \in BOOLEAN : Construct(v, g)
    \/ Graph /\ ByConstruction /\ ConstructDefault
    \/ Graph /\ ByConstruction /\ CanForward("int") /\ \E inputs \in InputLists : ForwardBasicSum(inputs)
    \/ Graph /\ CanCall /\ \E n, p \in Ids : AttachParent(n, p)
    \/ Graph /\ CanCall /\ ~ByConstruction /\ nBackward = 0
          /\ \E r \in Ids : CycleFrom(r) /\ Backward(r)
    \/ Graph /\ ReplayStep
    \/ Graph /\ BackwardReturn

SpecMisuse ==
    InitMisuse /\ [][NextMisuse]_vars /\ WF_vars(Graph /\ ReplayStep) /\ WF_vars(Graph /\ BackwardReturn)

\* a reset that leaves the grads of the leaves as they are
ZeroGradKeepsLeaves(ns) ==
    [n \in DOMAIN ns |->
        IF ns[n].parents = <<>> THEN ns[n] ELSE [ns[n] EXCEPT !.grad = AssignInt(@, 0)]]

\* n->grad = 0 on every node, through the public field
ZeroGrad(ns) == [n \in DOMAIN ns |-> [ns[n] EXCEPT !.grad = AssignInt(@, 0)]]

\* the caller resets the grads between two Backward() calls
ZeroGrads ==
    /\ CanCall
    /\ first # NoCall
    /\ nodes' = ZeroGrad(nodes)
    /\ zeroedAt' = nBackward
    /\ called' = 0
    /\ UNCHANGED <<T, origin, pc, root, sortedNodes, it, invoked, entryGrad,
                   nBackward, ub, first>>

\* Backward() returns; the caller notes what the first call left
RepeatReturn ==
    /\ BackwardReturn
    /\ first' = IF first = NoCall
                THEN [root |-> root, grad |-> [n \in Ids |-> nodes[n].grad]]
                ELSE first
    /\ UNCHANGED zeroedAt

\* a step of the graph and of the caller's bookkeeping
Repeating == UNCHANGED <<loggerVars, overloadVars, ownerVars>>

\* The program that calls Backward() again and again on one root of a graph of
\* BasicSum nodes it has built, with or without resetting the grads in between.
InitRepeat == Init /\ T = "int"

NextRepeat ==
    \/ Graph /\ nBackward = 0 /\ \E v \in LeafValues, g \in BOOLEAN : Construct(v, g)
    \/ Graph /\ nBackward = 0 /\ ConstructDefault
    \/ Graph /\ nBackward = 0 /\ CanForward("int")
          /\ \E inputs \in InputLists : ForwardBasicSum(inputs)
    \/ Graph /\ CanCall
          /\ \E r \in Ids :
                /\ nodes[r].requiresGrad
                /\ first = NoCall \/ r = first.root
                /\ Backward(r)
    \/ Repeating /\ ZeroGrads
    \/ Graph /\ ReplayStep
    \/ Repeating /\ RepeatReturn

SpecRepeat == InitRepeat /\ [][NextRepeat]_vars

\* ------------------------------------------------------------------ Logger calls
\* std::vformat that accepts a format string with too few arguments
FormatThrowsNever(fields, args) == FALSE

\* std::vformat(prefix + message, args) throws std::format_error when the
\* message has more replacement fields than there are arguments; arguments
\* left over are ignored.  The prefix (level, time, function, file, line) is
\* taken to hold no brace.
FormatThrows(fields, args) == fields > args

\* a lock that an exception leaves locked
UnwindKeepsLock(owner) == owner

\* ~lock_guard during the unwinding of an exception: m_mutex.unlock()
Unwind(owner) == 0

\* the new call of thread t
NewCall(t, op, fields, args, stream, flag) ==
    /\ lpc[t] = "idle"
    /\ nLogCalls < MaxLogCalls
    /\ nLogCalls' = nLogCalls + 1
    /\ call' = [call EXCEPT ![t] =
                   [op |-> op, id |-> nLogCalls + 1, fields |-> fields, args |-> args,
                    stream |-> stream, flag |-> flag,
                    afterThrow |-> \E u \in Threads : result[u] = "threw"]]
    /\ result' = [result EXCEPT ![t] = "none"]
    /\ UNCHANGED <<m_outputStream, m_mutex, m_buferization, streams, flushed>>

\* thread t calls Log(level, location, message, args...)
LogCall(t, fields, args) ==
    /\ NewCall(t, "Log", fields, args, "null", FALSE)
    /\ lpc' = [lpc EXCEPT ![t] = "lock"]

\* std::lock_guard<std::mutex> lock(m_mutex): blocks while another thread holds it
LogLock(t) ==
    /\ lpc[t] = "lock"
    /\ m_mutex = 0
    /\ m_mutex' = t
    /\ lpc' = [lpc EXCEPT ![t] = "check"]
    /\ UNCHANGED <<m_outputStream, m_buferization, streams, flushed, call, result, nLogCalls>>

\* if (!m_outputStream) return;
LogCheck(t) ==
    /\ lpc[t] = "check"
    /\ IF m_outputStream = "null"
       THEN /\ lpc' = [lpc EXCEPT ![t] = "idle"]
            /\ m_mutex' = 0
            /\ result' = [result EXCEPT ![t] = "skipped"]
       ELSE /\ lpc' = [lpc EXCEPT ![t] = "format"]
            /\ UNCHANGED <<m_mutex, result>>
    /\ UNCHANGED <<m_outputStream, m_buferization, streams, flushed, call, nLogCalls>>

\* BuildPrefix and std::vformat
LogFormat(t) ==
    /\ lpc[t] = "format"
    /\ IF FormatThrows(call[t].fields, call[t].args)
       THEN /\ lpc' = [lpc EXCEPT ![t] = "idle"]
            /\ m_mutex' = Unwind(m_mutex)
            /\ result' = [result EXCEPT ![t] = "threw"]
       ELSE /\ lpc' = [lpc EXCEPT ![t] = "write"]
            /\ UNCHANGED <<m_mutex, result>>
    /\ UNCHANGED <<m_outputStream, m_buferization, streams, flushed, call, nLogCalls>>

\* (*m_outputStream) << formattedMessage
LogWrite(t) ==
    /\ lpc[t] = "write"
    /\ m_outputStream \in Streams
    /\ streams' = [streams EXCEPT ![m_outputStream] =
                      Append(@, [id |-> call[t].id, part |-> "message"])]
    /\ lpc' = [lpc EXCEPT ![t] = "newline"]
    /\ UNCHANGED <<m_outputStream, m_mutex, m_buferization, flushed, call, result, nLogCalls>>

\* << "\n"
LogNewline(t) ==
    /\ lpc[t] = "newline"
    /\ m_outputStream \in Streams
    /\ streams' = [streams EXCEPT ![m_outputStream] =
                      Append(@, [id |-> call[t].id, part |-> "\n"])]
    /\ lpc' = [lpc EXCEPT ![t] = "flag"]
    /\ UNCHANGED <<m_outputStream, m_mutex, m_buferization, flushed, call, result, nLogCalls>>

\* if (m_buferization) (*m_outputStream) << std::flush; and the return, which
\* unlocks the mutex
LogFlag(t) ==
    /\ lpc[t] = "flag"
    /\ m_outputStream \in Streams
    /\ flushed' = IF m_buferization
                  THEN [flushed EXCEPT ![m_outputStream] = Len(streams[m_outputStream])]
                  ELSE flushed
    /\ m_mutex' = 0
    /\ lpc' = [lpc EXCEPT ![t] = "idle"]
    /\ result' = [result EXCEPT ![t] = "written"]
    /\ UNCHANGED <<m_outputStream, m_buferization, streams, call, nLogCalls>>

\* thread t calls SetOutputStream(stream)
SetOutputStreamCall(t, stream) ==
    /\ NewCall(t, "SetOutputStream", 0, 0, stream, FALSE)
    /\ lpc' = [lpc EXCEPT ![t] = "stream_lock"]

\* const std::lock_guard<std::mutex> lock(m_mutex);
SetOutputStreamLock(t) ==
    /\ lpc[t] = "stream_lock"
    /\ m_mutex = 0
    /\ m_mutex' = t
    /\ lpc' = [lpc EXCEPT ![t] = "stream_store"]
    /\ UNCHANGED <<m_outputStream, m_buferization, streams, flushed, call, result, nLogCalls>>

\* m_outputStream = stream; and the return, which unlocks the mutex
SetOutputStreamStore(t) ==
    /\ lpc[t] = "stream_store"
    /\ m_outputStream' = call[t].stream
    /\ m_mutex' = 0
    /\ lpc' = [lpc EXCEPT ![t] = "idle"]
    /\ result' = [result EXCEPT ![t] = "set"]
    /\ UNCHANGED <<m_buferization, streams, flushed, call, nLogCalls>>

\* thread t calls SetBuferization(buferization), which takes no lock
SetBuferizationCall(t, flag) ==
    /\ NewCall(t, "SetBuferization", 0, 0, "null", flag)
    /\ lpc' = [lpc EXCEPT ![t] = "flag_store"]

\* m_buferization = buferization;
SetBuferizationStore(t) ==
    /\ lpc[t] = "flag_store"
    /\ m_buferization' = call[t].flag
    /\ lpc' = [lpc EXCEPT ![t] = "idle"]
    /\ result' = [result EXCEPT ![t] = "set"]
    /\ UNCHANGED <<m_outputStream, m_mutex, streams, flushed, call, nLogCalls>>

\* a step of a thread inside a call of the logger
LoggerStep(t) ==
    \/ LogLock(t) \/ LogCheck(t) \/ LogFormat(t) \/ LogWrite(t) \/ LogNewline(t)
    \/ LogFlag(t) \/ SetOutputStreamLock(t) \/ SetOutputStreamStore(t)
    \/ SetBuferizationStore(t)

\* a step of the logger and its callers, which leaves the graph alone
Logging == UNCHANGED <<graphVars, repeatVars, overloadVars, ownerVars>>

\* The threads of a program that does nothing but call the logger.
InitLogger == GraphStart /\ T = "int" /\ LoggerInit

NextLogger ==
    \/ Logging /\ \E t \in Threads, fields \in ArgCounts, args \in ArgCounts :
                      LogCall(t, fields, args)
    \/ Logging /\ \E t \in Threads : LogLock(t)
    \/ Logging /\ \E t \in Threads : LogCheck(t)
    \/ Logging /\ \E t \in Threads : LogFormat(t)
    \/ Logging /\ \E t \in Threads : LogWrite(t)
    \/ Logging /\ \E t \in Threads : LogNewline(t)
    \/ Logging /\ \E t \in Threads : LogFlag(t)
    \/ Logging /\ \E t \in Threads, s \in Streams \cup {"null"} : SetOutputStreamCall(t, s)
    \/ Logging /\ \E t \in Threads : SetOutputStreamLock(t)
    \/ Logging /\ \E t \in Threads : SetOutputStreamStore(t)
    \/ Logging /\ \E t \in Threads, b \in BOOLEAN : SetBuferizationCall(t, b)
    \/ Logging /\ \E t \in Threads : SetBuferizationStore(t)

\* Each thread is scheduled: a thread inside a call takes its next step, and a
\* thread waiting for the mutex gets it once it is free for good.  The calls
\* themselves are under no obligation to happen.
SpecLogger ==
    InitLogger /\ [][NextLogger]_vars
        /\ \A t \in Threads : WF_vars(Logging /\ LoggerStep(t))

\* ------------------------------------------------------------------ ai::Variable
\* an empty std::function
NoVariableFn == [op |-> "none", a |-> 0, b |-> 0, out |-> 0]

\* Variable(T value, bool requiresGrad): value(value), grad(value), then grad = 0
VariableCtor(value, requiresGrad) ==
    [value |-> value, grad |-> 0, requiresGrad |-> requiresGrad,
     parents |-> <<>>, backwardFn |-> NoVariableFn]

\* operator+(a, b), whose result is the object `out`
OperatorPlus(vs, a, b, out) ==
    LET o == VariableCtor(vs[a].value + vs[b].value,
                          vs[a].requiresGrad \/ vs[b].requiresGrad)
    IN  IF o.requiresGrad
        THEN [o EXCEPT !.parents = <<a, b>>,
                       !.backwardFn = [op |-> "plus", a |-> a, b |-> b, out |-> out]]
        ELSE o

\* a closure that adds out->grad to a alone
PlusBackwardFirstOnly(vs, fn) ==
    IF vs[fn.a].requiresGrad
    THEN [vs EXCEPT ![fn.a].grad = @ + vs[fn.out].grad]
    ELSE vs

\* the closure of operator+: if (a->requiresGrad) a->grad += out->grad; and
\* the same for b, which reads a's new grad when a, b and out coincide
PlusBackward(vs, fn) ==
    LET va == IF vs[fn.a].requiresGrad
              THEN [vs EXCEPT ![fn.a].grad = @ + vs[fn.out].grad]
              ELSE vs
    IN  IF va[fn.b].requiresGrad
        THEN [va EXCEPT ![fn.b].grad = @ + va[fn.out].grad]
        ELSE va

RECURSIVE build_topo(_, _, _), BuildTopoParents(_, _, _, _)
\* the lambda build_topo; st holds visited and topo_order
build_topo(vs, node, st) ==
    IF node \in st.visited \/ ~vs[node].requiresGrad
    THEN st
    ELSE LET after == BuildTopoParents(vs, vs[node].parents, 1,
                                       [st EXCEPT !.visited = @ \cup {node}])
         IN  [after EXCEPT !.topo_order = Append(@, node)]

\* for (auto& parent : node->parents) build_topo(parent.get());
BuildTopoParents(vs, ps, i, st) ==
    IF i > Len(ps) THEN st
    ELSE BuildTopoParents(vs, ps, i + 1, build_topo(vs, ps[i], st))

RECURSIVE VariableReplay(_, _, _)
\* the loop from topo_order.rbegin() to rend(); run holds the objects and the
\* closures invoked so far
VariableReplay(order, i, run) ==
    IF i = 0 THEN run
    ELSE LET fn == run.vs[order[i]].backwardFn
         IN  VariableReplay(order, i - 1,
                 IF fn = NoVariableFn
                 THEN run
                 ELSE [vs |-> PlusBackward(run.vs, fn),
                       invoked |-> Append(run.invoked, order[i])])

\* Variable<T>::Backward() on object r
VariableBackward(vs, r) ==
    IF ~vs[r].requiresGrad
    THEN [vs |-> vs, invoked |-> <<>>]
    ELSE LET seeded == [vs EXCEPT ![r].grad = 1]
             order == build_topo(seeded, r, [visited |-> {}, topo_order |-> <<>>]).topo_order
         IN  VariableReplay(order, Len(order), [vs |-> seeded, invoked |-> <<>>])

\* the caller makes a leaf of each kind, with the same value and flag
OverloadLeaf(value, requiresGrad) ==
    /\ Construct(value, requiresGrad)
    /\ variables' = Append(variables, VariableCtor(value, requiresGrad))
    /\ UNCHANGED vInvoked

\* the caller adds the same two operands with BasicSum and with operator+
OverloadPlus(a, b) ==
    /\ ForwardBasicSum(<<a, b>>)
    /\ variables' = Append(variables, OperatorPlus(variables, a, b, Len(variables) + 1))
    /\ UNCHANGED vInvoked

\* the caller calls Backward() on the same expression of each kind:
\* Variable::Backward() runs to its end, Node::Backward() enters its loop
OverloadBackward(r) ==
    /\ Backward(r)
    /\ variables' = VariableBackward(variables, r).vs
    /\ vInvoked' = VariableBackward(variables, r).invoked

\* Node::Backward() returns
OverloadReturn ==
    /\ BackwardReturn
    /\ vInvoked' = <<>>
    /\ UNCHANGED variables

\* a step that leaves all but the two graphs alone
Overloading == UNCHANGED <<repeatVars, loggerVars, ownerVars>>

\* The program that builds each expression twice, from auto_diff::Node<int>
\* with the BasicSum module and from ai::Variable<int> with operator+, and
\* calls Backward() on both.
InitOverload == Init /\ T = "int"

NextOverload ==
    \/ Overloading /\ \E v \in LeafValues, g \in BOOLEAN : OverloadLeaf(v, g)
    \/ Overloading /\ CanForward("int") /\ \E a, b \in Ids : OverloadPlus(a, b)
    \/ Overloading /\ CanCall /\ \E r \in Ids : OverloadBackward(r)
    \/ Graph /\ ReplayStep
    \/ Overloading /\ OverloadReturn

SpecOverload == InitOverload /\ [][NextOverload]_vars

\* ------------------------------------------------------------------ NodePtr
\* parents and captured inputs kept as raw pointers
OwnsNothing(ns, m) == {}

\* the nodes that node m holds a NodePtr to: its parents, and the inputs its
\* closure captured by copy; the closure's `out` is a raw pointer
Owns(ns, m) == Range(ns[m].parents) \cup Range(ns[m].backwardFn.inputs)

RECURSIVE Collect(_, _, _)
\* std::shared_ptr: a node is destroyed when no NodePtr to it is left, neither
\* the caller's nor one in a node that is alive, and its own NodePtrs go with it
Collect(ns, live, holders) ==
    LET dead == {n \in live : n \notin holders /\ \A m \in live : n \notin Owns(ns, m)}
    IN  IF dead = {} THEN live ELSE Collect(ns, live \ dead, holders)

\* the caller keeps the NodePtr of every node it makes
Keep(made) ==
    /\ held' = held \cup made
    /\ alive' = alive \cup made

\* auto n = std::make_shared<Node<T>>(value, requiresGrad);
OwnedConstruct(value, requiresGrad) ==
    /\ Construct(value, requiresGrad)
    /\ Keep({Len(nodes) + 1})

\* auto outputs = BasicSum.Forward(inputs), on nodes the caller holds
OwnedForward(inputs) ==
    /\ Range(inputs) \subseteq held
    /\ ForwardBasicSum(inputs)
    /\ Keep((Len(nodes) + 1)..Len(nodes'))

\* the caller lets go of its NodePtr to node n: n.reset(), or n leaves scope
Drop(n) ==
    /\ CanCall
    /\ n \in held
    /\ held' = held \ {n}
    /\ alive' = Collect(nodes, alive, held')
    /\ called' = 0
    /\ UNCHANGED <<T, nodes, origin, pc, root, sortedNodes, it, invoked, entryGrad,
                   nBackward, ub>>

\* a step that leaves all but the graph and its owners alone
Owning == UNCHANGED <<repeatVars, loggerVars, overloadVars>>

\* The program that builds a graph of BasicSum nodes, lets go of some of its
\* pointers and then calls Backward() once through a pointer it still holds.
\* Backward() makes and destroys no NodePtr that outlives it, so one call
\* shows what any later call meets.
InitOwner == Init /\ T = "int"

NextOwner ==
    \/ Owning /\ nBackward = 0 /\ \E v \in LeafValues, g \in BOOLEAN : OwnedConstruct(v, g)
    \/ Owning /\ nBackward = 0 /\ CanForward("int")
          /\ \E inputs \in InputLists : OwnedForward(inputs)
    \/ Owning /\ nBackward = 0 /\ \E n \in Ids : Drop(n)
    \/ Graph /\ CanCall /\ nBackward = 0 /\ \E r \in held : Backward(r)
    \/ Graph /\ ReplayStep
    \/ Graph /\ BackwardReturn

SpecOwner == InitOwner /\ [][NextOwner]_vars

\* ------------------------------------------------------------------ properties
\* Backward()'s loop has run to rend(): the state Backward() returns in
Done == pc = "replay" /\ it = 0

\* the nodes whose closure this Backward() has invoked, in order
InvokedNodes == [k \in DOMAIN invoked |-> invoked[k].node]

NoDuplicates(s) == \A i, j \in DOMAIN s : s[i] = s[j] => i = j

\* how many times n is listed in ps
Mult(n, ps) == Cardinality({i \in DOMAIN ps : ps[i] = n})

Ancestors(r) == Reach({r}, 0) \ {r}

\* the nodes every parent path from r to which goes through n
OnlyThrough(r, n) == (Reach({r}, 0) \ Reach({r}, n)) \ {n}

RECURSIVE Paths(_, _)
\* the number of parent-edge paths from r to n, an input listed k times counting k times
RECURSIVE SumPaths(_, _, _)
Paths(r, n) == IF r = n THEN 1 ELSE SumPaths(nodes[r].parents, 1, n)
SumPaths(ps, i, n) == IF i > Len(ps) THEN 0 ELSE Paths(ps[i], n) + SumPaths(ps, i + 1, n)

RECURSIVE Contributions(_, _)
\* what the first k closures invoked have added to n.grad under the Sum backend:
\* each adds the grad it read from its output once per listing of n among its inputs
Contributions(n, k) ==
    IF k = 0 THEN 0
    ELSE Mult(n, nodes[invoked[k].node].parents) * invoked[k].grad + Contributions(n, k - 1)

\* C1: during Backward(), when the closure of a visited node n is invoked, the
\* closure of every visited node that lists n as a parent has been invoked
\* before, and n.grad does not change after n's closure has read it
C1_ChildrenBeforeParents ==
    pc \in {"replay", "crashed"} =>
        \A k \in DOMAIN invoked :
            /\ \A m \in Range(sortedNodes) :
                   invoked[k].node \in Range(nodes[m].parents)
                       => \E j \in 1..(k - 1) : invoked[j].node = m
            /\ nodes[invoked[k].node].grad = invoked[k].grad

\* a Backward() has invoked the closure of a node after that of its visited child
C1_Witness ==
    /\ Done
    /\ \E k \in DOMAIN invoked, m \in Range(sortedNodes) :
           /\ invoked[k].node \in Range(nodes[m].parents)
           /\ \E a \in Range(sortedNodes) :
                  a \in Range(nodes[m].parents) /\ a \in Range(nodes[invoked[k].node].parents)

\* C2: in a graph built from integer leaves by the Sum module, a Backward()
\* entered with all grads zero returns with root.grad = 1 and every other
\* differentiable node's grad equal to the number of parent paths from the root
C2_GradCountsPaths ==
    (Done /\ T = "int" /\ \A n \in Ids : entryGrad[n] = 0) =>
        /\ nodes[root].grad = 1
        /\ \A n \in Ids \ {root} : nodes[n].requiresGrad => nodes[n].grad = Paths(root, n)

\* a node reached along three paths, two of them through one doubled input
C2_Witness ==
    /\ Done /\ T = "int" /\ \A n \in Ids : entryGrad[n] = 0
    /\ \E n \in Ids \ {root}, m \in Ids :
           /\ nodes[n].grad = 3
           /\ Mult(n, nodes[m].parents) = 2
           /\ n \in Range(nodes[root].parents)

C4_VisitedOnce ==
    pc \in {"replay", "crashed"} => NoDuplicates(sortedNodes) /\ NoDuplicates(InvokedNodes)

\* a Backward() has invoked the closure of a node that a visited node lists twice
C4_Witness ==
    /\ Done
    /\ \E k \in DOMAIN invoked, m \in Range(sortedNodes) :
           Mult(invoked[k].node, nodes[m].parents) >= 2

\* C5: under the Sum backend a Backward() overwrites only the root's grad (with
\* 1); any other node's grad is its grad at entry plus what the closures invoked
\* so far have added, and when Backward() returns every differentiable ancestor
\* of the root holds more than it did at entry
C5_AccumulatesOnly ==
    (pc = "replay" /\ T = "int") =>
        /\ nodes[root].grad = 1
        /\ \A n \in Ids \ {root} :
               nodes[n].grad = entryGrad[n]
                   + (IF nodes[n].requiresGrad THEN Contributions(n, Len(invoked)) ELSE 0)
        /\ it = 0 => \A n \in Ancestors(root) :
                         nodes[n].requiresGrad => nodes[n].grad > entryGrad[n]

\* a second Backward() on the same root (it was seeded before: no node lists it,
\* yet its grad was 1 at entry) has finished over an ancestor the first had left nonzero
C5_Witness ==
    /\ Done /\ T = "int" /\ nBackward = 2
    /\ entryGrad[root] = 1
    /\ \A m \in Ids : root \notin Range(nodes[m].parents)
    /\ \E n \in Ancestors(root) :
           nodes[n].requiresGrad /\ entryGrad[n] > 0 /\ nodes[n].grad > entryGrad[n]

\* C6: a Backward() call on a node whose requiresGrad is false changes no node
\* and invokes no closure
C6_NoopWhenNotDifferentiable ==
    [][(pc = "idle" /\ called' # 0 /\ ~nodes[called'].requiresGrad)
           => (nodes' = nodes /\ pc' = "idle" /\ invoked' = invoked
               /\ sortedNodes' = sortedNodes /\ nBackward' = nBackward)]_vars

\* the caller's latest call was a Backward() on a non-differentiable node that
\* has differentiable nodes among its neighbours
C6_Witness ==
    /\ pc = "idle" /\ called # 0
    /\ ~nodes[called].requiresGrad
    /\ \E n \in Ids : nodes[n].requiresGrad

C8_FlagIsOrOfInputs ==
    \A n \in Ids :
        origin[n].made = "module" =>
            nodes[n].requiresGrad =
                (\E i \in DOMAIN origin[n].inputs : nodes[origin[n].inputs[i]].requiresGrad)

\* a module's output that the backend constructed with one flag and Forward
\* left with the other
C8_Witness ==
    \E n \in Ids :
        /\ origin[n].made = "module"
        /\ origin[n].ctor # nodes[n].requiresGrad

\* C9: the parents of every output of Forward(inputs) are exactly inputs: the
\* same nodes in the same order with the same multiplicity, for every output
C9_ParentsAreInputs ==
    \A n \in Ids : origin[n].made = "module" => nodes[n].parents = origin[n].inputs

\* two outputs of one Forward call of a multi-output operation, both with the
\* call's inputs as parents
C9_Witness ==
    \E n \in Ids :
        /\ n + 1 \in Ids
        /\ origin[n].made = "module" /\ origin[n].index = 0
        /\ origin[n + 1].made = "module" /\ origin[n + 1].index = 1
        /\ nodes[n].parents # <<>>
        /\ nodes[n + 1].parents = nodes[n].parents

\* C10: a node has a backward closure exactly if a Module produced it and its
\* requiresGrad is true; constructed leaves have none
C10_ClosureIffModuleAndFlag ==
    \A n \in Ids :
        (nodes[n].backwardFn # NoFn) <=> (origin[n].made = "module" /\ nodes[n].requiresGrad)

\* a differentiable leaf, a module's non-differentiable output and a module's
\* differentiable output side by side
C10_Witness ==
    \E a, b, c \in Ids :
        /\ origin[a].made # "module" /\ nodes[a].requiresGrad
        /\ origin[b].made = "module" /\ ~nodes[b].requiresGrad
        /\ origin[c].made = "module" /\ nodes[c].requiresGrad /\ nodes[c].backwardFn # NoFn

\* C11: a Module.Forward call leaves every node that existed before it as it
\* was (data, grad, requiresGrad, parents, backward closure): it writes only
\* the output nodes it creates
C11_ForwardKeepsInputs ==
    [][(Len(origin') > Len(origin) /\ origin'[Len(origin')].made = "module")
           => \A n \in Ids : nodes'[n] = nodes[n]]_vars

\* a Forward has been given a module's differentiable output that holds a
\* gradient, a closure and parents of its own, and the output still holds them
C11_Witness ==
    \E n \in Ids :
        /\ origin[n].made = "module"
        /\ \E i \in DOMAIN origin[n].inputs :
               LET b == origin[n].inputs[i]
               IN  /\ origin[b].made = "module" /\ nodes[b].requiresGrad
                   /\ nodes[b].backwardFn # NoFn /\ nodes[b].parents # <<>>
                   /\ nodes[b].grad # origin[b].grad

\* the zero of T shaped like value
ZeroLike(value) == IF T = "int" THEN 0 ELSE [i \in 1..Len(value) |-> 0]

\* C12: a node made by Construct(value, requiresGrad) has data = value, no
\* parents and no closure, and was constructed with grad the zero shaped like
\* value if requiresGrad is true and the default-constructed T if it is false;
\* a default-constructed node has the default T (0 for int) as data and grad,
\* requiresGrad true, no parents and no closure
C12_ConstructedNode ==
    \A n \in Ids :
        /\ origin[n].made = "leaf" =>
              /\ nodes[n].data \in LeafValues
              /\ nodes[n].parents = <<>> /\ nodes[n].backwardFn = NoFn
              /\ nodes[n].requiresGrad = origin[n].ctor
              /\ origin[n].grad = IF origin[n].ctor THEN ZeroLike(nodes[n].data)
                                                    ELSE DefaultT
        /\ origin[n].made = "default" =>
              /\ nodes[n].data = DefaultT /\ origin[n].grad = DefaultT
              /\ T = "int" => nodes[n].data = 0 /\ origin[n].grad = 0
              /\ nodes[n].requiresGrad
              /\ nodes[n].parents = <<>> /\ nodes[n].backwardFn = NoFn

\* a vector leaf constructed to require grad, one constructed not to, and a
\* default-constructed node
C12_Witness ==
    /\ T = "Vec"
    /\ \E a, b, c \in Ids :
           /\ origin[a].made = "leaf" /\ origin[a].ctor /\ Len(origin[a].grad) = 2
           /\ origin[b].made = "leaf" /\ ~origin[b].ctor /\ origin[b].grad = <<>>
           /\ origin[c].made = "default"

\* the leaves constructed to require grad that parent paths lead to from n
\* (n itself if it is one); a default-constructed node requires grad
DifferentiableLeaves(n) ==
    {m \in Reach({n}, 0) : origin[m].made # "module" /\ origin[m].ctor}

\* C13: a node's requiresGrad is true exactly if it is a leaf constructed with
\* requiresGrad = true or a path of parent edges leads from it to such a leaf,
\* and no step changes the requiresGrad of a node that exists
C13_FlagIsReachability ==
    /\ [](\A n \in Ids : nodes[n].requiresGrad <=> DifferentiableLeaves(n) # {})
    /\ [][\A n \in Ids : nodes'[n].requiresGrad = nodes[n].requiresGrad]_vars

\* after a Backward() has run: a differentiable module output that reaches its
\* leaf only through another module's output, the leaf constructed to require grad
C13_Witness ==
    /\ nBackward > 0 /\ pc = "idle"
    /\ \E b \in Ids :
           /\ origin[b].made = "module" /\ nodes[b].requiresGrad
           /\ nodes[b].parents # <<>>
           /\ \A i \in DOMAIN nodes[b].parents : origin[nodes[b].parents[i]].made = "module"
           /\ \E m \in DifferentiableLeaves(b) : origin[m].made = "leaf"

\* C14: the parent graph is acyclic by construction: every parent of a node was
\* created before the node, and no node that exists gains or loses a parent
C14_AcyclicByConstruction ==
    /\ [](\A n \in Ids : \A i \in DOMAIN nodes[n].parents : nodes[n].parents[i] < n)
    /\ [][\A n \in Ids : nodes'[n].parents = nodes[n].parents]_vars

\* after a Backward(): a node one of whose parents is itself a module's output
\* with parents, and a node that two later nodes list as a parent
C14_Witness ==
    /\ nBackward > 0 /\ pc = "idle"
    /\ \E n, m, a \in Ids :
           /\ m \in Range(nodes[n].parents)
           /\ a \in Range(nodes[m].parents)
           /\ a \in Range(nodes[n].parents)

\* C15: on the acyclic graphs the program builds, a Backward() that has been
\* entered ends: its traversal has produced a finite order (no longer than the
\* number of nodes), its loop invokes no more closures than that, and it leaves
\* the loop
C15_BackwardTerminates ==
    /\ [](pc = "replay" => /\ Len(sortedNodes) <= Len(nodes)
                           /\ Len(invoked) + it <= Len(sortedNodes))
    /\ (pc = "replay") ~> (pc # "replay")

\* a Backward() is at the end of its loop over an order of three nodes, having
\* invoked two closures
C15_Witness == Done /\ Len(sortedNodes) = 3 /\ Len(invoked) = 2

\* C16 as claimed: when the graph reachable from the root contains a cycle of
\* differentiable nodes, Backward()'s traversal never completes, so Backward()
\* never reaches its replay loop
C16_CycleNeverCompletes == ~(pc = "replay" /\ CycleFrom(root))

\* C16 as the code has it: on such a graph the traversal completes, because a
\* node is marked visited before its parents are traversed: every node of the
\* cycle (every node reachable through differentiable nodes) is in the order
\* exactly once, the root last, and Backward() replays and leaves its loop
C16_CycleIsVisitedOnce ==
    /\ []((pc = "replay" /\ CycleFrom(root)) =>
             /\ NoDuplicates(sortedNodes)
             /\ Range(sortedNodes) = DiffReachable(root)
             /\ sortedNodes[Len(sortedNodes)] = root
             /\ Len(invoked) + it <= Len(sortedNodes))
    /\ (pc = "replay" /\ CycleFrom(root)) ~> (pc # "replay")

\* a Backward() has run to the end of its loop on a graph in which its root
\* lies on a cycle through another node, and a node of the cycle lists two
\* different parents
C16_Witness ==
    /\ Done /\ OnCycle(root)
    /\ \E n \in Range(sortedNodes) \ {root} : OnCycle(n)
    /\ \E n \in Range(sortedNodes) :
           OnCycle(n) /\ Cardinality(Range(nodes[n].parents) \cap Range(sortedNodes)) >= 2

\* C17: the visitation order of a Backward() on a differentiable root holds
\* exactly the nodes the root reaches along parent paths of differentiable
\* nodes: no node with requiresGrad = false is in it, nothing reached only
\* through such a node is, and every visited parent stands before each visited
\* node that lists it
C17_OrderIsDifferentiableReach ==
    pc \in {"replay", "crashed"} =>
        /\ Range(sortedNodes) = DiffReachable(root)
        /\ \A k \in DOMAIN sortedNodes : nodes[sortedNodes[k]].requiresGrad
        /\ \A j, k \in DOMAIN sortedNodes :
               sortedNodes[j] \in Range(nodes[sortedNodes[k]].parents) => j < k

\* a Backward() whose root lists a non-differentiable node, left out of the
\* order, and a differentiable one, which stands in it before the root
C17_Witness ==
    /\ Done
    /\ \E a, b \in Range(nodes[root].parents) :
           /\ ~nodes[a].requiresGrad /\ a \notin Range(sortedNodes)
           /\ nodes[b].requiresGrad
           /\ \E j, k \in DOMAIN sortedNodes :
                  sortedNodes[j] = b /\ sortedNodes[k] = root /\ j < k

\* the other outputs of the Forward call that made n
Siblings(n) ==
    {m \in Ids \ {n} : /\ origin[m].made = "module" /\ origin[n].made = "module"
                       /\ m - origin[m].index = n - origin[n].index}

\* C18: the closure of output i of a Forward call holds that output node and
\* the index i; a Backward() on output i of the split operation invokes no
\* closure of a sibling output and leaves the siblings' grads as they were, and
\* when it returns the grad of the input the split was given has grown by the
\* root's grad at position i and is unchanged at every other position
C18_SplitOutputIndex ==
    /\ \A n \in Ids :
           nodes[n].backwardFn # NoFn =>
               /\ nodes[n].backwardFn.out = n
               /\ nodes[n].backwardFn.i = origin[n].index
    /\ (pc \in {"replay", "crashed"} /\ origin[root].op = "VectorSplit") =>
           /\ \A m \in Siblings(root) :
                  /\ m \notin Range(InvokedNodes)
                  /\ nodes[m].grad = entryGrad[m]
           /\ (it = 0 /\ pc = "replay" /\ Len(origin[root].inputs) = 1) =>
                  LET in == origin[root].inputs[1]
                  IN  nodes[in].requiresGrad =>
                          \A j \in DOMAIN nodes[in].grad :
                              nodes[in].grad[j] =
                                  entryGrad[in][j]
                                      + (IF j = origin[root].index + 1 THEN 1 ELSE 0)

\* Backward() on the second of the two outputs of a split has returned the
\* input's grad as [0, 1], the first output's grad still zero
C18_Witness ==
    /\ Done /\ origin[root].op = "VectorSplit" /\ origin[root].index = 1
    /\ nodes[origin[root].inputs[1]].grad = <<0, 1>>
    /\ \E m \in Siblings(root) : nodes[m].requiresGrad /\ nodes[m].grad = <<0>>

C20_BackwardWritesGradsOnly ==
    [][(pc = "replay" \/ pc' = "replay") =>
          \A n \in Ids :
              /\ nodes'[n].data = nodes[n].data
              /\ nodes'[n].parents = nodes[n].parents
              /\ nodes'[n].requiresGrad = nodes[n].requiresGrad
              /\ nodes'[n].backwardFn = nodes[n].backwardFn
              /\ nodes'[n].grad # nodes[n].grad =>
                    IF pc = "idle"
                    THEN n = root'
                    ELSE /\ nodes[n].requiresGrad
                         /\ \E m \in Range(sortedNodes) : n \in Range(nodes[m].parents)]_vars

\* a Backward() has run to the end of its loop and has changed the grad of a
\* parent of a parent of its root
C20_Witness ==
    /\ Done
    /\ \E m \in Range(nodes[root].parents) :
           \E n \in Range(nodes[m].parents) :
               /\ n # m /\ n \notin Range(nodes[root].parents)
               /\ nodes[n].grad # entryGrad[n]

\* C23: in a graph built by constructing leaves and calling Forward, every
\* ancestor of a node with requiresGrad = false has requiresGrad = false, so
\* the order Backward() builds on a differentiable root holds every
\* differentiable ancestor of the root: the cut-off at a non-differentiable
\* node leaves no differentiable node out
C23_NonDifferentiableAncestors ==
    /\ \A n \in Ids :
           ~nodes[n].requiresGrad => \A a \in Ancestors(n) : ~nodes[a].requiresGrad
    /\ pc \in {"replay", "crashed"} =>
           {a \in Ancestors(root) : nodes[a].requiresGrad} \subseteq Range(sortedNodes)

\* a module output that is not differentiable and has an ancestor, in a graph
\* on which a Backward() on a differentiable root has run to the end of its loop
C23_Witness ==
    /\ Done
    /\ nodes[root].requiresGrad /\ root \in Range(sortedNodes)
    /\ \E n \in Ids :
           /\ origin[n].made = "module"
           /\ ~nodes[n].requiresGrad
           /\ Ancestors(n) # {}

\* the caller has reset the grads since the Backward() call before this one returned
EnteredZeroed == zeroedAt = nBackward - 1

OtherLeaves ==
    {l \in Ids : nodes[l].parents = <<>> /\ nodes[l].requiresGrad /\ l # first.root}

\* the caller is between two calls, has had Backward() return at least once and
\* has never reset a grad
Unzeroed == pc = "idle" /\ first # NoCall /\ zeroedAt = 0

\* C25: without zeroing between the calls, after k Backward() calls on the
\* same root every differentiable leaf's grad is k times its grad after the
\* first call, in a graph of BasicSum nodes of any depth
C25_LeafGradIsKTimesFirst ==
    Unzeroed => \A l \in OtherLeaves : nodes[l].grad = nBackward * first.grad[l]

\* the leaves that every parent path from the root of the repeated calls
\* reaches in one step, if at all
DirectLeaves ==
    {l \in OtherLeaves : \A m \in Ancestors(first.root) : l \notin Ancestors(m)}

\* C25 as the code has it: after k calls without zeroing, a differentiable leaf
\* that the root reaches by single edges only holds k times its grad after the
\* first call, and every other differentiable leaf holds at least that: the
\* grads earlier calls left on the nodes in between are propagated again
C25_DirectLeafGradIsKTimesFirst ==
    Unzeroed =>
        /\ \A l \in DirectLeaves : nodes[l].grad = nBackward * first.grad[l]
        /\ \A l \in OtherLeaves : nodes[l].grad >= nBackward * first.grad[l]

\* two Backward() calls without a reset have returned, and a leaf the root
\* lists twice, and reaches in no other way, holds twice its first grad
C25_Witness ==
    /\ Unzeroed /\ nBackward = 2
    /\ \E l \in DirectLeaves :
           /\ Mult(l, nodes[first.root].parents) = 2
           /\ first.grad[l] = 2
           /\ nodes[l].grad = 4

\* thread t is about to read or write the stream pointer, the flush flag or
\* the stream itself
Accessing(t) ==
    lpc[t] \in {"check", "write", "newline", "flag", "stream_store", "flag_store"}

\* the stream holds whole lines only: each message is followed at once by its
\* own newline, and nothing else is written
WholeLines(s) ==
    /\ Len(s) % 2 = 0
    /\ \A k \in DOMAIN s :
           IF k % 2 = 1
           THEN s[k].part = "message"
           ELSE s[k].part = "\n" /\ s[k].id = s[k - 1].id

\* C26: under any interleaving of Log, SetOutputStream and SetBuferization
\* calls of several threads, a thread reads or writes the stream pointer, the
\* flush flag or the stream only while it holds the mutex, and every message
\* stands in the stream as one uninterrupted line
C26_SharedStateUnderMutex ==
    /\ \A t \in Threads : Accessing(t) => m_mutex = t
    /\ \A s \in Streams :
           (\A t \in Threads : lpc[t] # "newline") => WholeLines(streams[s])

\* the call thread t made last wrote nothing
WroteNothing(t) ==
    \A s \in Streams : \A k \in DOMAIN streams[s] : streams[s][k].id # call[t].id

\* the call thread t made last wrote one line, message and newline
WroteLine(t) ==
    \E s \in Streams : \E k \in DOMAIN streams[s] :
        /\ streams[s][k] = [id |-> call[t].id, part |-> "message"]
        /\ k < Len(streams[s])
        /\ streams[s][k + 1] = [id |-> call[t].id, part |-> "\n"]

\* C27: a Log call whose message has more replacement fields than arguments
\* ends with a format error, has written nothing and leaves the mutex free; a
\* Log call that finds the stream pointer null returns without writing and
\* without an error; a Log call with as many arguments as fields, or more, on
\* a stream writes its line; and every Log call, also one made after a call
\* that failed, comes to its end
C27_LogFailsCleanly ==
    /\ [](\A t \in Threads :
            /\ lpc[t] = "idle" => m_mutex # t
            /\ result[t] = "threw" =>
                  call[t].op = "Log" /\ call[t].fields > call[t].args /\ WroteNothing(t)
            /\ result[t] = "skipped" => call[t].op = "Log" /\ WroteNothing(t)
            /\ result[t] = "written" =>
                  call[t].op = "Log" /\ call[t].fields <= call[t].args /\ WroteLine(t))
    /\ [][\A t \in Threads :
            /\ (lpc[t] = "check" /\ lpc'[t] # "check") =>
                  IF m_outputStream = "null"
                  THEN result'[t] = "skipped" /\ streams' = streams
                  ELSE lpc'[t] = "format"
            /\ (lpc[t] = "format" /\ lpc'[t] # "format") =>
                  IF call[t].fields > call[t].args
                  THEN result'[t] = "threw" /\ streams' = streams /\ m_mutex' = 0
                  ELSE lpc'[t] = "write"]_vars
    /\ \A t \in Threads : (lpc[t] = "lock") ~> (lpc[t] = "idle")

\* a Log call made after another Log call had failed with a format error has
\* written its line, given more arguments than its message has fields
C27_Witness ==
    \E t, u \in Threads :
        /\ result[u] = "threw"
        /\ result[t] = "written" /\ call[t].afterThrow
        /\ call[t].fields < call[t].args
        /\ call[t].id > call[u].id
        /\ WroteLine(t)

RECURSIVE OwnedFrom(_)
\* the nodes a chain of NodePtrs leads to from the nodes in seen
OwnedFrom(seen) ==
    LET more == UNION {Owns(nodes, m) : m \in seen} \ seen
    IN  IF more = {} THEN seen ELSE OwnedFrom(seen \cup more)

\* the nodes Backward() and the closures it invokes read or write: the nodes of
\* the order, their parents (whose requiresGrad the traversal reads), and the
\* inputs and the output of each closure in the order
Touched ==
    {root} \cup Range(sortedNodes)
        \cup UNION {Range(nodes[m].parents) : m \in Range(sortedNodes)}
        \cup UNION {Range(nodes[m].backwardFn.inputs) \cup
                        (IF nodes[m].backwardFn = NoFn THEN {} ELSE {nodes[m].backwardFn.out}) :
                    m \in Range(sortedNodes)}

\* C21: a node is alive exactly as long as the caller holds it or a chain of
\* NodePtrs of live nodes leads to it from a node the caller holds; the NodePtrs
\* Forward makes (parents, captured inputs) lead from an output to its inputs
\* only, never to the node itself or to a descendant; and every node that
\* Backward() traverses or a closure touches is alive, whichever intermediate
\* nodes the caller has let go of
C21_NodesAliveWhileReferenced ==
    /\ alive = OwnedFrom(held)
    /\ \A m \in Ids :
           /\ Owns(nodes, m) \subseteq Range(origin[m].inputs)
           /\ m \notin OwnedFrom(Owns(nodes, m))
    /\ pc \in {"replay", "crashed"} => Touched \subseteq alive

\* Backward() has run on the root of a chain of two BasicSum nodes after the
\* caller let go of the leaf and of the node in between, which the closures
\* have read and written
C21_Witness ==
    /\ Done
    /\ \E m \in Range(nodes[root].parents) :
           \E l \in Range(nodes[m].parents) :
               /\ m \notin held /\ l \notin held
               /\ m \in alive /\ l \in alive
               /\ m \in Range(InvokedNodes)
               /\ nodes[l].grad # entryGrad[l]

====
